---- MODULE Spec2Model ----
(***************************************************************************)
(* Model of the JSPLIB instance reader (src/src/parser.py,                 *)
(* read_jsplib_instance) and of the standalone model builder               *)
(* (src/src/instance_data.py, build_model_data).                           *)
(*                                                                         *)
(* A file is a sequence of raw lines.  A raw line is a record              *)
(*   [comment : BOOLEAN, bad : BOOLEAN, toks : Seq(Int)]                   *)
(* comment: the stripped line starts with '#'; toks: the whitespace         *)
(* separated tokens that int() converts, as integers; bad: the line also    *)
(* holds a token that int() rejects.  A blank line has no token.           *)
(* Python indices are 0-based: job j is jobs[j + 1] here, and an operation  *)
(* is the pair <<j, k>> with j and k 0-based as in the source.             *)
(***************************************************************************)
EXTENDS Integers, Sequences, FiniteSets, TLC

VARIABLES path, file, pc, lines, n_jobs, n_machines, parsed_rows, jobs, md, md2, err

vars == <<path, file, pc, lines, n_jobs, n_machines, parsed_rows, jobs, md, md2, err>>

(***************************************************************************)
(* Bounds of the explored inputs.                                          *)
(***************************************************************************)
\* largest n_machines of a generated file
MaxMach == 3
\* largest n_jobs * n_machines of a generated file
MaxOps == 4
\* largest duration token of a generated file (the smallest is -1)
MaxDur == 1
\* start times of the schedules a state is tested against reach horizon + Slack
Slack == 1

(***************************************************************************)
(* Helpers                                                                 *)
(***************************************************************************)
Min(S) == CHOOSE x \in S : \A y \in S : x <= y

Max(S) == CHOOSE x \in S : \A y \in S : y <= x

Range(s) == {s[i] : i \in DOMAIN s}

EmptyMap == [x \in {} |-> 0]

RECURSIVE SumSeq(_)
SumSeq(s) == IF Len(s) = 0 THEN 0 ELSE Head(s) + SumSeq(Tail(s))

RECURSIVE Flatten(_)
Flatten(ss) == IF Len(ss) = 0 THEN <<>> ELSE Head(ss) \o Flatten(Tail(ss))

\* tokens[0::2] and tokens[1::2]
EvenTokens(tokens) == [i \in 1..(Len(tokens) \div 2) |-> tokens[2 * i - 1]]

OddTokens(tokens) == [i \in 1..(Len(tokens) \div 2) |-> tokens[2 * i]]

\* sorted(...): insertion sort
RECURSIVE Insert(_, _)
Insert(x, s) ==
  IF Len(s) = 0 THEN <<x>>
  ELSE IF x <= Head(s) THEN <<x>> \o s
  ELSE <<Head(s)>> \o Insert(x, Tail(s))

RECURSIVE Sorted(_)
Sorted(s) == IF Len(s) = 0 THEN <<>> ELSE Insert(Head(s), Sorted(Tail(s)))

\* list(range(n))
RangeList(n) == [i \in 1..n |-> i - 1]

NoErr == [kind |-> "none", job |-> -1, op |-> -1]

Error(kind, j, k) == [kind |-> kind, job |-> j, op |-> k]

EmptyModel ==
  [name |-> "", n_jobs |-> 0, n_machines |-> 0, jobs |-> <<>>, ops |-> <<>>,
   machine_of |-> EmptyMap, ptime |-> EmptyMap, job_succ |-> EmptyMap,
   ops_on_machine |-> EmptyMap, horizon |-> 0]

EmptyModel2 ==
  [name |-> "", n_jobs |-> 0, n_machines |-> 0, ops |-> <<>>,
   machine_of |-> EmptyMap, ptime |-> EmptyMap, job_succ |-> EmptyMap,
   ops_on_machine |-> EmptyMap, horizon |-> 0, failed |-> FALSE]

(***************************************************************************)
(* Step 1: non-empty, non-comment lines                                    *)
(***************************************************************************)
Skipped(raw) == raw.comment \/ (Len(raw.toks) = 0 /\ ~raw.bad)

StripLines(f) == SelectSeq(f, LAMBDA raw : ~Skipped(raw))

(***************************************************************************)
(* Step 2: dimensions                                                      *)
(***************************************************************************)
DimsOutcome(ls) ==
  LET head == ls[1] IN
  IF head.bad \/ Len(head.toks) # 2 THEN Error("value", -1, -1)
  ELSE IF head.toks[1] <= 0 \/ head.toks[2] <= 0 THEN Error("dims", -1, -1)
  ELSE IF Len(ls) < 1 + head.toks[1] THEN Error("joblines", -1, -1)
  ELSE NoErr

(***************************************************************************)
(* Step 3: raw tokens of each job                                          *)
(***************************************************************************)
RECURSIVE ParseRowsFrom(_, _, _, _, _)
ParseRowsFrom(ls, nj, nm, j, acc) ==
  IF j = nj THEN [err |-> NoErr, rows |-> acc]
  ELSE LET ln == ls[2 + j] IN
       IF ln.bad THEN [err |-> Error("value", j, -1), rows |-> <<>>]
       ELSE IF Len(ln.toks) # 2 * nm
            THEN [err |-> Error("tokens", j, -1), rows |-> <<>>]
       ELSE ParseRowsFrom(ls, nj, nm, j + 1, Append(acc, ln.toks))

ParseRows(ls, nj, nm) == ParseRowsFrom(ls, nj, nm, 0, <<>>)

AllMachineIds(rows) == Flatten([j \in 1..Len(rows) |-> EvenTokens(rows[j])])

(***************************************************************************)
(* Step 4: indexing auto-detection                                         *)
(***************************************************************************)
\* mutant: the 1-based band tested against n_machines - 1
DetectIndexingBandSlip(ids, nm) ==
  LET min_id == Min(Range(ids))
      max_id == Max(Range(ids))
  IN  IF min_id = 0 /\ max_id = nm - 1 THEN "zero"
      ELSE IF min_id = 1 /\ max_id = nm - 1 THEN "one"
      ELSE "ambiguous"

DetectIndexing(ids, nm) ==
  LET min_id == Min(Range(ids))
      max_id == Max(Range(ids))
  IN  IF min_id = 0 /\ max_id = nm - 1 THEN "zero"
      ELSE IF min_id = 1 /\ max_id = nm THEN "one"
      ELSE "ambiguous"

(***************************************************************************)
(* Step 5: jobs normalised to 0-based machines, validated                  *)
(***************************************************************************)
\* mutant: only the range of each id is tested
IsPermutationRangeOnly(machines, nm) ==
  \A i \in DOMAIN machines : machines[i] \in 0..(nm - 1)

IsPermutation(machines, nm) == Sorted(machines) = RangeList(nm)

\* mutant: the p < 0 test is missing
RECURSIVE NormalizeOpsNoCheck(_, _, _, _, _)
NormalizeOpsNoCheck(tokens, nm, one_based, k, acc) ==
  IF k = nm THEN [op |-> -1, ops_for_job |-> acc]
  ELSE LET m0 == tokens[2 * k + 1]
           p  == tokens[2 * k + 2]
           m  == IF one_based THEN m0 - 1 ELSE m0
       IN  NormalizeOpsNoCheck(tokens, nm, one_based, k + 1, Append(acc, <<m, p>>))

RECURSIVE NormalizeOps(_, _, _, _, _)
NormalizeOps(tokens, nm, one_based, k, acc) ==
  IF k = nm THEN [op |-> -1, ops_for_job |-> acc]
  ELSE LET m0 == tokens[2 * k + 1]
           p  == tokens[2 * k + 2]
           m  == IF one_based THEN m0 - 1 ELSE m0
       IN  IF p < 0 THEN [op |-> k, ops_for_job |-> <<>>]
           ELSE NormalizeOps(tokens, nm, one_based, k + 1, Append(acc, <<m, p>>))

\* mutant: the job's machines are not validated
NormalizeJobNoValidation(tokens, j, nm, one_based) ==
  LET r == NormalizeOps(tokens, nm, one_based, 0, <<>>) IN
  IF r.op # -1 THEN [err |-> Error("negative", j, r.op), ops_for_job |-> <<>>]
  ELSE [err |-> NoErr, ops_for_job |-> r.ops_for_job]

NormalizeJob(tokens, j, nm, one_based) ==
  LET r == NormalizeOps(tokens, nm, one_based, 0, <<>>) IN
  IF r.op # -1 THEN [err |-> Error("negative", j, r.op), ops_for_job |-> <<>>]
  ELSE IF ~IsPermutation([k \in 1..nm |-> r.ops_for_job[k][1]], nm)
       THEN [err |-> Error("permutation", j, -1), ops_for_job |-> <<>>]
  ELSE [err |-> NoErr, ops_for_job |-> r.ops_for_job]

RECURSIVE NormalizeFrom(_, _, _, _, _, _)
NormalizeFrom(rows, nj, nm, one_based, j, acc) ==
  IF j = nj THEN [err |-> NoErr, jobs |-> acc]
  ELSE LET r == NormalizeJob(rows[j + 1], j, nm, one_based) IN
       IF r.err # NoErr THEN [err |-> r.err, jobs |-> <<>>]
       ELSE NormalizeFrom(rows, nj, nm, one_based, j + 1, Append(acc, r.ops_for_job))

\* mutant: the convention is detected for each job line on its own
RECURSIVE NormalizePerJobFrom(_, _, _, _, _)
NormalizePerJobFrom(rows, nj, nm, j, acc) ==
  IF j = nj THEN [err |-> NoErr, jobs |-> acc]
  ELSE LET d == DetectIndexing(EvenTokens(rows[j + 1]), nm)
           r == NormalizeJob(rows[j + 1], j, nm, d = "one")
       IN  IF d = "ambiguous" THEN [err |-> Error("indexing", -1, -1), jobs |-> <<>>]
           ELSE IF r.err # NoErr THEN [err |-> r.err, jobs |-> <<>>]
           ELSE NormalizePerJobFrom(rows, nj, nm, j + 1, Append(acc, r.ops_for_job))

NormalizeAllPerJob(rows, nj, nm) == NormalizePerJobFrom(rows, nj, nm, 0, <<>>)

NormalizeAll(rows, nj, nm) ==
  LET d == DetectIndexing(AllMachineIds(rows), nm) IN
  IF d = "ambiguous" THEN [err |-> Error("indexing", -1, -1), jobs |-> <<>>]
  ELSE NormalizeFrom(rows, nj, nm, d = "one", 0, <<>>)

(***************************************************************************)
(* Step 6: model-ready structures, built inline by the reader              *)
(***************************************************************************)
EmptyAcc(nm) ==
  [ops |-> <<>>, machine_of |-> EmptyMap, ptime |-> EmptyMap, job_succ |-> EmptyMap,
   ops_on_machine |-> [m \in 0..(nm - 1) |-> <<>>], horizon |-> 0, failed |-> FALSE]

\* mutant: the operation is filed under its position, not its machine
InlineStepWrongMachine(acc, js, nm, j, k) ==
  LET op == <<j, k>>
      m  == js[j + 1][k + 1][1]
      p  == js[j + 1][k + 1][2]
  IN  [ops |-> Append(acc.ops, op),
       machine_of |-> (op :> m) @@ acc.machine_of,
       ptime |-> (op :> p) @@ acc.ptime,
       job_succ |-> IF k < nm - 1 THEN (op :> <<j, k + 1>>) @@ acc.job_succ
                    ELSE acc.job_succ,
       ops_on_machine |-> [acc.ops_on_machine EXCEPT ![k] = Append(@, op)],
       horizon |-> acc.horizon + p,
       failed |-> FALSE]

\* mutant: the last operation of a job gets a successor too (k < n_machines)
InlineStepSuccLast(acc, js, nm, j, k) ==
  LET op == <<j, k>>
      m  == js[j + 1][k + 1][1]
      p  == js[j + 1][k + 1][2]
  IN  [ops |-> Append(acc.ops, op),
       machine_of |-> (op :> m) @@ acc.machine_of,
       ptime |-> (op :> p) @@ acc.ptime,
       job_succ |-> IF k < nm THEN (op :> <<j, k + 1>>) @@ acc.job_succ
                    ELSE acc.job_succ,
       ops_on_machine |-> [acc.ops_on_machine EXCEPT ![m] = Append(@, op)],
       horizon |-> acc.horizon + p,
       failed |-> FALSE]

\* mutant: horizon = p instead of horizon += p
InlineStepNoAccumulate(acc, js, nm, j, k) ==
  LET op == <<j, k>>
      m  == js[j + 1][k + 1][1]
      p  == js[j + 1][k + 1][2]
  IN  [ops |-> Append(acc.ops, op),
       machine_of |-> (op :> m) @@ acc.machine_of,
       ptime |-> (op :> p) @@ acc.ptime,
       job_succ |-> IF k < nm - 1 THEN (op :> <<j, k + 1>>) @@ acc.job_succ
                    ELSE acc.job_succ,
       ops_on_machine |-> [acc.ops_on_machine EXCEPT ![m] = Append(@, op)],
       horizon |-> p,
       failed |-> FALSE]

\* mutant: the durations of the last job are left out of horizon
InlineStepSkipLastJob(acc, js, nm, j, k) ==
  LET op == <<j, k>>
      m  == js[j + 1][k + 1][1]
      p  == js[j + 1][k + 1][2]
  IN  [ops |-> Append(acc.ops, op),
       machine_of |-> (op :> m) @@ acc.machine_of,
       ptime |-> (op :> p) @@ acc.ptime,
       job_succ |-> IF k < nm - 1 THEN (op :> <<j, k + 1>>) @@ acc.job_succ
                    ELSE acc.job_succ,
       ops_on_machine |-> [acc.ops_on_machine EXCEPT ![m] = Append(@, op)],
       horizon |-> IF j + 1 < Len(js) THEN acc.horizon + p ELSE acc.horizon,
       failed |-> FALSE]

\* one pass of the loop body for op = (j, k); failed: ops_on_machine[m] raises KeyError
InlineStep(acc, js, nm, j, k) ==
  LET op == <<j, k>>
      m  == js[j + 1][k + 1][1]
      p  == js[j + 1][k + 1][2]
  IN  IF m \notin DOMAIN acc.ops_on_machine THEN [acc EXCEPT !.failed = TRUE]
      ELSE [ops |-> Append(acc.ops, op),
            machine_of |-> (op :> m) @@ acc.machine_of,
            ptime |-> (op :> p) @@ acc.ptime,
            job_succ |-> IF k < nm - 1 THEN (op :> <<j, k + 1>>) @@ acc.job_succ
                         ELSE acc.job_succ,
            ops_on_machine |-> [acc.ops_on_machine EXCEPT ![m] = Append(@, op)],
            horizon |-> acc.horizon + p,
            failed |-> FALSE]

\* for j in range(n_jobs): for k in range(n_machines): i = j * n_machines + k
RECURSIVE InlineLoop(_, _, _, _, _)
InlineLoop(acc, js, nj, nm, i) ==
  IF i = nj * nm \/ acc.failed THEN acc
  ELSE InlineLoop(InlineStep(acc, js, nm, i \div nm, i % nm), js, nj, nm, i + 1)

InlineBuild(stem, js, nj, nm) ==
  LET a == InlineLoop(EmptyAcc(nm), js, nj, nm, 0) IN
  [name |-> stem, n_jobs |-> nj, n_machines |-> nm, jobs |-> js, ops |-> a.ops,
   machine_of |-> a.machine_of, ptime |-> a.ptime, job_succ |-> a.job_succ,
   ops_on_machine |-> a.ops_on_machine, horizon |-> a.horizon]

(***************************************************************************)
(* build_model_data: the standalone builder, from an instance's            *)
(* name, n_jobs, n_machines and jobs                                       *)
(***************************************************************************)
\* mutant: the standalone builder keys ops_on_machine by position
BuildStepWrongMachine(acc, inst, j, k) ==
  LET op == <<j, k>>
      m  == inst.jobs[j + 1][k + 1][1]
      p  == inst.jobs[j + 1][k + 1][2]
  IN  [ops |-> Append(acc.ops, op),
       machine_of |-> (op :> m) @@ acc.machine_of,
       ptime |-> (op :> p) @@ acc.ptime,
       job_succ |-> IF k < inst.n_machines - 1
                    THEN (op :> <<j, k + 1>>) @@ acc.job_succ
                    ELSE acc.job_succ,
       ops_on_machine |-> [acc.ops_on_machine EXCEPT ![k] = Append(@, op)],
       horizon |-> acc.horizon + p,
       failed |-> FALSE]

BuildStep(acc, inst, j, k) ==
  LET op == <<j, k>>
      m  == inst.jobs[j + 1][k + 1][1]
      p  == inst.jobs[j + 1][k + 1][2]
  IN  IF m \notin DOMAIN acc.ops_on_machine THEN [acc EXCEPT !.failed = TRUE]
      ELSE [ops |-> Append(acc.ops, op),
            machine_of |-> (op :> m) @@ acc.machine_of,
            ptime |-> (op :> p) @@ acc.ptime,
            job_succ |-> IF k < inst.n_machines - 1
                         THEN (op :> <<j, k + 1>>) @@ acc.job_succ
                         ELSE acc.job_succ,
            ops_on_machine |-> [acc.ops_on_machine EXCEPT ![m] = Append(@, op)],
            horizon |-> acc.horizon + p,
            failed |-> FALSE]

RECURSIVE BuildLoop(_, _, _)
BuildLoop(acc, inst, i) ==
  IF i = inst.n_jobs * inst.n_machines \/ acc.failed THEN acc
  ELSE BuildLoop(BuildStep(acc, inst, i \div inst.n_machines, i % inst.n_machines),
                 inst, i + 1)

build_model_data(inst) ==
  LET a == BuildLoop(EmptyAcc(inst.n_machines), inst, 0) IN
  [name |-> inst.name, n_jobs |-> inst.n_jobs, n_machines |-> inst.n_machines,
   ops |-> a.ops, machine_of |-> a.machine_of, ptime |-> a.ptime,
   job_succ |-> a.job_succ, ops_on_machine |-> a.ops_on_machine,
   horizon |-> a.horizon, failed |-> a.failed]

(***************************************************************************)
(* The whole reader as a function of the file: what it raises or returns   *)
(***************************************************************************)
read_jsplib_instance(stem, f) ==
  LET ls == StripLines(f) IN
  IF Len(ls) < 2 THEN [err |-> Error("notenough", -1, -1), md |-> EmptyModel]
  ELSE IF DimsOutcome(ls) # NoErr THEN [err |-> DimsOutcome(ls), md |-> EmptyModel]
  ELSE LET nj == ls[1].toks[1]
           nm == ls[1].toks[2]
           pr == ParseRows(ls, nj, nm)
       IN  IF pr.err # NoErr THEN [err |-> pr.err, md |-> EmptyModel]
           ELSE LET nz == NormalizeAll(pr.rows, nj, nm) IN
                IF nz.err # NoErr THEN [err |-> nz.err, md |-> EmptyModel]
                ELSE [err |-> NoErr, md |-> InlineBuild(stem, nz.jobs, nj, nm)]

(***************************************************************************)
(* Input files                                                             *)
(***************************************************************************)
DataLine(toks) == [comment |-> FALSE, bad |-> FALSE, toks |-> toks]

BadLine(toks) == [comment |-> FALSE, bad |-> TRUE, toks |-> toks]

CommentLine == [comment |-> TRUE, bad |-> FALSE, toks |-> <<>>]

BlankLine == [comment |-> FALSE, bad |-> FALSE, toks |-> <<>>]

\* a job line of nm (machine id, duration) pairs: ids 0..nm, durations -1..MaxDur
Pairs(nm) == (0..nm) \X (-1..MaxDur)

RowToks(r) ==
  [i \in 1..(2 * Len(r)) |-> IF i % 2 = 1 THEN r[(i + 1) \div 2][1] ELSE r[i \div 2][2]]

Shapes == {s \in (1..MaxOps) \X (1..MaxMach) : s[1] * s[2] <= MaxOps}

ShapedFile(nj, nm, rows) ==
  <<DataLine(<<nj, nm>>)>> \o [j \in 1..nj |-> DataLine(RowToks(rows[j]))]

\* the files of shape s: a right dimension line, n_jobs lines of 2 * n_machines tokens
ShapedFilesOf(s) == {ShapedFile(s[1], s[2], rows) : rows \in [1..s[1] -> [1..s[2] -> Pairs(s[2])]]}

\* the files the defects below are applied to: those of at most two operations
Seeds == UNION {ShapedFilesOf(s) : s \in {t \in Shapes : t[1] * t[2] <= 2}}

DropLast(s) == SubSeq(s, 1, Len(s) - 1)

WithDims(f, toks) == <<DataLine(toks)>> \o Tail(f)

WithLastRow(f, ln) == DropLast(f) \o <<ln>>

Defects(f) ==
  LET nj == f[1].toks[1]
      nm == f[1].toks[2]
      last == f[Len(f)].toks
  IN  { <<CommentLine>> \o f,
        <<f[1], BlankLine, CommentLine>> \o Tail(f),
        <<f[1]>>,
        <<CommentLine, f[1], BlankLine>>,
        DropLast(f) \o <<CommentLine>>,
        f \o <<DataLine(<<nm + 1, 1>>)>>,
        f \o <<BadLine(<<>>)>>,
        WithDims(f, <<nj>>),
        WithDims(f, <<nj, nm, 1>>),
        WithDims(f, <<0, nm>>),
        WithDims(f, <<nj, 0>>),
        WithDims(f, <<-1, nm>>),
        WithDims(f, <<nj + 1, nm>>),
        <<BadLine(<<nj, nm>>)>> \o Tail(f),
        WithLastRow(f, DataLine(DropLast(last))),
        WithLastRow(f, DataLine(Append(last, 0))),
        WithLastRow(f, BadLine(last)),
        WithLastRow(f, DataLine(<<-1>> \o Tail(last))),
        WithLastRow(f, DataLine(<<nm + 1>> \o Tail(last))) }

DefectFiles == {<<>>} \cup UNION {Defects(f) : f \in Seeds}

\* the spec's Scenario A: 1-based ids, a comment line, horizon 11
ScenarioA ==
  <<DataLine(<<2, 2>>), CommentLine, DataLine(<<1, 3, 2, 2>>), DataLine(<<2, 2, 1, 4>>)>>

(***************************************************************************)
(* The reader, step by step                                                *)
(***************************************************************************)
Init ==
  /\ path = "ft06"
  /\ \/ \E s \in Shapes : \E rows \in [1..s[1] -> [1..s[2] -> Pairs(s[2])]] :
          file = ShapedFile(s[1], s[2], rows)
     \/ file \in DefectFiles \cup {ScenarioA}
  /\ pc = "start"
  /\ lines = <<>>
  /\ n_jobs = 0
  /\ n_machines = 0
  /\ parsed_rows = <<>>
  /\ jobs = <<>>
  /\ md = EmptyModel
  /\ md2 = EmptyModel2
  /\ err = NoErr

Raise(e) == pc' = "raised" /\ err' = e

\* parser.py 43-52
ReadLines ==
  /\ pc = "start"
  /\ lines' = StripLines(file)
  /\ IF Len(lines') < 2 THEN Raise(Error("notenough", -1, -1))
     ELSE pc' = "dims" /\ err' = err
  /\ UNCHANGED <<path, file, n_jobs, n_machines, parsed_rows, jobs, md, md2>>

\* parser.py 54-60
ParseDims ==
  /\ pc = "dims"
  /\ IF DimsOutcome(lines) # NoErr
     THEN Raise(DimsOutcome(lines)) /\ UNCHANGED <<n_jobs, n_machines>>
     ELSE /\ n_jobs' = lines[1].toks[1]
          /\ n_machines' = lines[1].toks[2]
          /\ pc' = "rows"
          /\ err' = err
  /\ UNCHANGED <<path, file, lines, parsed_rows, jobs, md, md2>>

\* parser.py 62-73
ParseJobRows ==
  /\ pc = "rows"
  /\ LET pr == ParseRows(lines, n_jobs, n_machines) IN
     IF pr.err # NoErr THEN Raise(pr.err) /\ UNCHANGED parsed_rows
     ELSE parsed_rows' = pr.rows /\ pc' = "normalize" /\ err' = err
  /\ UNCHANGED <<path, file, lines, n_jobs, n_machines, jobs, md, md2>>

\* parser.py 75-109
Normalize ==
  /\ pc = "normalize"
  /\ LET nz == NormalizeAll(parsed_rows, n_jobs, n_machines) IN
     IF nz.err # NoErr THEN Raise(nz.err) /\ UNCHANGED jobs
     ELSE jobs' = nz.jobs /\ pc' = "build" /\ err' = err
  /\ UNCHANGED <<path, file, lines, n_jobs, n_machines, parsed_rows, md, md2>>

\* parser.py 111-142
BuildModel ==
  /\ pc = "build"
  /\ md' = InlineBuild(path, jobs, n_jobs, n_machines)
  /\ pc' = "returned"
  /\ UNCHANGED <<path, file, lines, n_jobs, n_machines, parsed_rows, jobs, md2, err>>

\* a caller hands the returned instance to instance_data.py's build_model_data
Rebuild ==
  /\ pc = "returned"
  /\ md2' = build_model_data(md)
  /\ pc' = "rebuilt"
  /\ UNCHANGED <<path, file, lines, n_jobs, n_machines, parsed_rows, jobs, md, err>>

Next == ReadLines \/ ParseDims \/ ParseJobRows \/ Normalize \/ BuildModel \/ Rebuild

Spec == Init /\ [][Next]_vars

Returned == pc \in {"returned", "rebuilt"}

Raised == pc = "raised"

\* the step-by-step reader and the reader as a function agree
StepsAgree ==
  /\ Returned => read_jsplib_instance(path, file) = [err |-> NoErr, md |-> md]
  /\ Raised => read_jsplib_instance(path, file) = [err |-> err, md |-> EmptyModel]

(***************************************************************************)
(* What the claims speak of, stated on the input file and on the result    *)
(***************************************************************************)
Terminal == Raised \/ Returned

\* the job lines the reader looks at: the n_jobs working lines after the first
JobLine(f, j) == StripLines(f)[j + 2].toks

\* valid dimensions, enough job lines, 2 * n_machines integer tokens on each
WellFormed(f) ==
  LET ls == StripLines(f) IN
  /\ Len(ls) >= 2
  /\ ~ls[1].bad
  /\ Len(ls[1].toks) = 2
  /\ ls[1].toks[1] > 0
  /\ ls[1].toks[2] > 0
  /\ Len(ls) >= 1 + ls[1].toks[1]
  /\ \A j \in 0..(ls[1].toks[1] - 1) : ~ls[j + 2].bad /\ Len(ls[j + 2].toks) = 2 * ls[1].toks[2]

DeclaredJobs(f) == StripLines(f)[1].toks[1]

DeclaredMachines(f) == StripLines(f)[1].toks[2]

IdsOfLine(f, j) == EvenTokens(JobLine(f, j))

DurationsOfLine(f, j) == OddTokens(JobLine(f, j))

IdSetOfFile(f) == UNION {Range(IdsOfLine(f, j)) : j \in 0..(DeclaredJobs(f) - 1)}

\* the ids of job line j are each of base .. base + n_machines - 1 once
PermutationFrom(f, j, base) ==
  /\ Range(IdsOfLine(f, j)) = base..(base + DeclaredMachines(f) - 1)
  /\ Len(IdsOfLine(f, j)) = DeclaredMachines(f)

HasNegative(f, j) == \E k \in DOMAIN DurationsOfLine(f, j) : DurationsOfLine(f, j)[k] < 0

FirstNegative(f, j) == Min({k \in DOMAIN DurationsOfLine(f, j) : DurationsOfLine(f, j)[k] < 0}) - 1

\* C1: the reader either raises and returns nothing, or returns a result with
\* n_jobs > 0, n_machines > 0, n_jobs jobs of n_machines (machine, duration)
\* pairs each, every duration >= 0, and the machine ids of every job a
\* permutation of 0..n_machines-1.
C1_ValidOrNothing ==
  /\ ~Returned => md = EmptyModel
  /\ Raised => err # NoErr
  /\ Returned =>
       /\ err = NoErr
       /\ md.n_jobs > 0
       /\ md.n_machines > 0
       /\ Len(md.jobs) = md.n_jobs
       /\ \A j \in 1..md.n_jobs :
            /\ Len(md.jobs[j]) = md.n_machines
            /\ \A k \in 1..md.n_machines : md.jobs[j][k][2] >= 0
            /\ {md.jobs[j][k][1] : k \in 1..md.n_machines} = 0..(md.n_machines - 1)

C1_Witness ==
  /\ Returned
  /\ md.n_jobs >= 2
  /\ md.n_machines >= 2
  /\ \E j \in 0..(md.n_jobs - 1) : 2 \in Range(IdsOfLine(file, j))

\* C2: for every accepted input, ops is the job-major, position-minor
\* enumeration of all (j, k), of length n_jobs * n_machines, and every machine
\* m of 0..n_machines-1 has exactly n_jobs operations in ops_on_machine[m],
\* each with machine_of equal to m.
C2_OpsAndMachines ==
  Returned =>
    /\ md.ops = [i \in 1..(md.n_jobs * md.n_machines) |->
                   <<(i - 1) \div md.n_machines, (i - 1) % md.n_machines>>]
    /\ Cardinality(Range(md.ops)) = md.n_jobs * md.n_machines
    /\ DOMAIN md.ops_on_machine = 0..(md.n_machines - 1)
    /\ \A m \in 0..(md.n_machines - 1) :
         /\ Len(md.ops_on_machine[m]) = md.n_jobs
         /\ \A i \in 1..Len(md.ops_on_machine[m]) :
              /\ md.ops_on_machine[m][i] \in Range(md.ops)
              /\ md.machine_of[md.ops_on_machine[m][i]] = m

C2_Witness ==
  /\ Returned
  /\ md.n_jobs >= 2
  /\ md.n_machines >= 2
  /\ md.ops_on_machine[0] = <<(<<0, 1>>), (<<1, 0>>)>>

\* C3: for every accepted input, job_succ has exactly n_jobs * (n_machines - 1)
\* entries, job_succ[(j, k)] = (j, k + 1) for every k < n_machines - 1, and no
\* entry for the last operation of a job.
C3_JobSucc ==
  Returned =>
    /\ DOMAIN md.job_succ =
         {<<j, k>> : j \in 0..(md.n_jobs - 1), k \in 0..(md.n_machines - 2)}
    /\ Cardinality(DOMAIN md.job_succ) = md.n_jobs * (md.n_machines - 1)
    /\ \A o \in DOMAIN md.job_succ : md.job_succ[o] = <<o[1], o[2] + 1>>
    /\ \A j \in 0..(md.n_jobs - 1) : <<j, md.n_machines - 1>> \notin DOMAIN md.job_succ

C3_Witness ==
  /\ Returned
  /\ md.n_jobs >= 2
  /\ md.n_machines >= 2
  /\ Cardinality(DOMAIN md.job_succ) = 2

C3_WitnessOneMachine == Returned /\ md.n_machines = 1 /\ md.job_succ = EmptyMap

\* C4: for every accepted input, horizon is the sum of ptime over ops, which is
\* the sum of the duration tokens of the first n_jobs job lines; Scenario A
\* yields 11.
C4_Horizon ==
  Returned =>
    /\ md.horizon = SumSeq([i \in 1..Len(md.ops) |-> md.ptime[md.ops[i]]])
    /\ md.horizon =
         SumSeq(Flatten([j \in 1..DeclaredJobs(file) |-> DurationsOfLine(file, j - 1)]))
    /\ file = ScenarioA => md.horizon = 11

C4_Witness == Returned /\ file = ScenarioA /\ md.horizon = 11

\* C10: build_model_data applied to a returned result completes without error
\* and yields the name, n_jobs, n_machines, ops, machine_of, ptime, job_succ,
\* ops_on_machine and horizon the result already holds.
C10_BuildersAgree ==
  pc = "rebuilt" =>
    /\ ~md2.failed
    /\ md2.name = md.name
    /\ md2.n_jobs = md.n_jobs
    /\ md2.n_machines = md.n_machines
    /\ md2.ops = md.ops
    /\ md2.machine_of = md.machine_of
    /\ md2.ptime = md.ptime
    /\ md2.job_succ = md.job_succ
    /\ md2.ops_on_machine = md.ops_on_machine
    /\ md2.horizon = md.horizon

C10_Witness ==
  /\ pc = "rebuilt"
  /\ md2.n_jobs >= 2
  /\ md2.n_machines >= 2
  /\ md2.horizon > 0
  /\ md2.ops_on_machine[1] = <<(<<0, 0>>), (<<1, 1>>)>>

(***************************************************************************)
(* Re-indexing a file: every machine id of every line after the dimension  *)
(* line moved by d, all other tokens unchanged                             *)
(***************************************************************************)
ShiftIds(toks, d) == [t \in 1..Len(toks) |-> IF t % 2 = 1 THEN toks[t] + d ELSE toks[t]]

IsDimensionLine(f, i) == ~Skipped(f[i]) /\ \A h \in 1..(i - 1) : Skipped(f[h])

ShiftFile(f, d) ==
  [i \in 1..Len(f) |->
     IF Skipped(f[i]) \/ IsDimensionLine(f, i) THEN f[i]
     ELSE [f[i] EXCEPT !.toks = ShiftIds(@, d)]]

\* C5: an accepted file with 1-based ids and the file with every id
\* decremented are both accepted with identical n_jobs, n_machines, jobs, ops,
\* machine_of, ptime, job_succ, ops_on_machine and horizon; and conversely for
\* an accepted 0-based file and the file with every id incremented.
C5_ConventionInvariant ==
  Returned =>
    LET d == IF 0 \in IdSetOfFile(file) THEN 1 ELSE -1
        other == read_jsplib_instance(path, ShiftFile(file, d))
    IN  /\ other.err = NoErr
        /\ other.md.n_jobs = md.n_jobs
        /\ other.md.n_machines = md.n_machines
        /\ other.md.jobs = md.jobs
        /\ other.md.ops = md.ops
        /\ other.md.machine_of = md.machine_of
        /\ other.md.ptime = md.ptime
        /\ other.md.job_succ = md.job_succ
        /\ other.md.ops_on_machine = md.ops_on_machine
        /\ other.md.horizon = md.horizon

C5_Witness ==
  /\ Returned
  /\ md.n_jobs >= 2
  /\ md.n_machines >= 2
  /\ 0 \notin IdSetOfFile(file)
  /\ ShiftFile(file, -1) # file
  /\ read_jsplib_instance(path, ShiftFile(file, -1)).md.jobs = md.jobs

\* one job line uses 0..n_machines-1, another uses 1..n_machines
MixedConventions(f) ==
  /\ WellFormed(f)
  /\ \E j0, j1 \in 0..(DeclaredJobs(f) - 1) :
       /\ j0 # j1
       /\ PermutationFrom(f, j0, 0)
       /\ PermutationFrom(f, j1, 1)

\* C6: a well-formed file in which one job line's ids are a permutation of
\* 0..n_machines-1 and another's a permutation of 1..n_machines is rejected:
\* the reader raises and never returns a result.
C6_MixedRejected ==
  MixedConventions(file) => /\ pc \notin {"build", "returned", "rebuilt"}
                            /\ Terminal => Raised

C6_Witness == MixedConventions(file) /\ Raised /\ DeclaredMachines(file) >= 2

\* n_machines = 2 and job 0's line has machine ids [0, 0]
RepeatedZero(f) ==
  /\ WellFormed(f)
  /\ DeclaredMachines(f) = 2
  /\ IdsOfLine(f, 0) = <<0, 0>>

\* C7 as claimed: every such file fails with the permutation error naming
\* job 0, and with no other kind of error.
C7_AlwaysPermutationError ==
  (RepeatedZero(file) /\ Terminal) => (Raised /\ err = Error("permutation", 0, -1))

\* C7 as amended: every such file fails; the error is the permutation error
\* naming job 0 when the ids of the first n_jobs job lines have minimum 0 and
\* maximum 1 and job 0 has no negative duration, the negative-duration error
\* of job 0 when that range holds and job 0 has a negative duration, and the
\* ambiguous-indexing error when the range is another one.
C7_FailsInCheckOrder ==
  (RepeatedZero(file) /\ Terminal) =>
    /\ Raised
    /\ err = IF Min(IdSetOfFile(file)) # 0 \/ Max(IdSetOfFile(file)) # 1
             THEN Error("indexing", -1, -1)
             ELSE IF HasNegative(file, 0)
                  THEN Error("negative", 0, FirstNegative(file, 0))
             ELSE Error("permutation", 0, -1)

C7_Witness == RepeatedZero(file) /\ Raised /\ err = Error("permutation", 0, -1)

\* some duration of the first n_jobs job lines is negative
NegativeDuration(f) ==
  /\ WellFormed(f)
  /\ \E j \in 0..(DeclaredJobs(f) - 1) : HasNegative(f, j)

FirstNegativeJob(f) == Min({j \in 0..(DeclaredJobs(f) - 1) : HasNegative(f, j)})

\* the accepted bands: ids spanning 0..n_machines-1, or 1..n_machines
BandDetected(f) ==
  \/ Min(IdSetOfFile(f)) = 0 /\ Max(IdSetOfFile(f)) = DeclaredMachines(f) - 1
  \/ Min(IdSetOfFile(f)) = 1 /\ Max(IdSetOfFile(f)) = DeclaredMachines(f)

BrokenJobsBefore(f, j) ==
  {i \in 0..(j - 1) : ~PermutationFrom(f, i, Min(IdSetOfFile(f)))}

\* C8 as claimed: every such file fails with the negative-duration error at
\* the job and position of a negative duration, never with another kind.
C8_AlwaysNegativeError ==
  (NegativeDuration(file) /\ Terminal) =>
    /\ Raised
    /\ err.kind = "negative"
    /\ err.job \in 0..(DeclaredJobs(file) - 1)
    /\ err.op \in 0..(DeclaredMachines(file) - 1)
    /\ DurationsOfLine(file, err.job)[err.op + 1] < 0

\* C8 as amended: every such file fails and no result is returned; the error
\* is the ambiguous-indexing error when the id range is not an accepted band,
\* else the permutation error of the first job line that precedes the first
\* line with a negative duration and is not a permutation, else the
\* negative-duration error at the first negative duration in job-major order.
C8_FailsInCheckOrder ==
  (NegativeDuration(file) /\ Terminal) =>
    /\ Raised
    /\ md = EmptyModel
    /\ err = IF ~BandDetected(file) THEN Error("indexing", -1, -1)
             ELSE IF BrokenJobsBefore(file, FirstNegativeJob(file)) # {}
                  THEN Error("permutation",
                             Min(BrokenJobsBefore(file, FirstNegativeJob(file))), -1)
             ELSE Error("negative", FirstNegativeJob(file),
                        FirstNegative(file, FirstNegativeJob(file)))

C8_Witness ==
  /\ NegativeDuration(file)
  /\ Raised
  /\ err.kind = "negative"
  /\ err.job >= 1
  /\ err.op >= 1

(***************************************************************************)
(* Schedules of a returned model: a start time for every operation         *)
(***************************************************************************)
OpSet == Range(md.ops)

EndOf(s, o) == s[o] + md.ptime[o]

\* job precedence respected, no two operations of a machine overlap
Feasible(s) ==
  /\ \A o \in DOMAIN md.job_succ : EndOf(s, o) <= s[md.job_succ[o]]
  /\ \A m \in DOMAIN md.ops_on_machine :
       \A a, b \in Range(md.ops_on_machine[m]) :
         a # b => (EndOf(s, a) <= s[b] \/ EndOf(s, b) <= s[a])

Schedules == [OpSet -> 0..(md.horizon + Slack)]

\* C9 as claimed: in every feasible schedule every completion time is at most
\* horizon.
C9_EveryFeasibleWithinHorizon ==
  pc = "returned" =>
    \A s \in Schedules : Feasible(s) => \A o \in OpSet : EndOf(s, o) <= md.horizon

Perms(q) ==
  {p \in [1..Len(q) -> Range(q)] : \A a, b \in 1..Len(q) : a # b => p[a] # p[b]}

\* a processing order of its operations for every machine
MachineOrders ==
  {f \in [DOMAIN md.ops_on_machine ->
            UNION {Perms(md.ops_on_machine[m]) : m \in DOMAIN md.ops_on_machine}] :
     \A m \in DOMAIN md.ops_on_machine : f[m] \in Perms(md.ops_on_machine[m])}

\* the operations o must wait for: the one before it in its job, and the one
\* before it on its machine
Preds(o, f) ==
  {p \in DOMAIN md.job_succ : md.job_succ[p] = o}
    \cup UNION {{f[m][i] : i \in {h \in 1..(Len(f[m]) - 1) : f[m][h + 1] = o}} : m \in DOMAIN f}

Relax(s, f) == [o \in OpSet |-> Max({0} \cup {EndOf(s, p) : p \in Preds(o, f)})]

RECURSIVE RelaxN(_, _, _)
RelaxN(s, f, n) == IF n = 0 THEN s ELSE RelaxN(Relax(s, f), f, n - 1)

\* every operation started as early as its predecessors allow
EarliestStart(f) == RelaxN([o \in OpSet |-> 0], f, Cardinality(OpSet))

\* the order contradicts no job precedence: the earliest starts exist
Consistent(f) == Relax(EarliestStart(f), f) = EarliestStart(f)

Makespan(s) == Max({0} \cup {EndOf(s, o) : o \in OpSet})

\* C9 as amended: in every schedule without inserted idle time (for any
\* processing order on the machines, every operation starts as early as the
\* operation before it in its job and the one before it on its machine allow)
\* the schedule is feasible and every completion time is at most horizon.
C9_SemiActiveWithinHorizon ==
  pc = "returned" =>
    \A f \in MachineOrders :
      Consistent(f) =>
        /\ Feasible(EarliestStart(f))
        /\ \A o \in OpSet : EndOf(EarliestStart(f), o) <= md.horizon

C9_Witness ==
  /\ pc = "returned"
  /\ md.n_jobs >= 2
  /\ md.n_machines >= 2
  /\ md.horizon > 2
  /\ \E f \in MachineOrders : Consistent(f) /\ Makespan(EarliestStart(f)) = md.horizon
  /\ \E f \in MachineOrders : ~Consistent(f)

====
